---- MODULE Spec2Model ----
(***************************************************************************)
(* Model of the source synchronization engine of the shadcn-ui CLI:        *)
(*   - diff_ops      (crates/cli/src/commands/diff.rs), the LCS differ     *)
(*   - unified_diff  (crates/cli/src/commands/diff.rs), the hunk formatter *)
(*   - Registry::resolve_dependencies (crates/registry/src/lib.rs)         *)
(* Indices into Rust vectors are kept 0-based as in the source; a TLA+     *)
(* sequence s models the vector v by s[k + 1] = v[k].                      *)
(***************************************************************************)
EXTENDS Integers, Sequences, FiniteSets, TLC

VARIABLES
    \* ---- unified_diff / diff_ops ----
    old_lines,        \* Vec<&str> of the registry text
    new_lines,        \* Vec<&str> of the local text
    table,            \* LCS table of diff_ops, table[i][j], 0-based
    i, j,             \* backtracking cursor of diff_ops
    ops,              \* Vec<DiffOp>
    tagged,           \* Vec<TaggedLine>
    old_lineno,       \* forward-pass counter
    new_lineno,       \* forward-pass counter
    change_indices,   \* indices of the non-Context entries of tagged
    hunk_ranges,      \* Vec<(first_change_idx, last_change_idx)>
    hunks,            \* per emitted hunk: the locals of the emit loop body
    output,           \* the output String, as its sequence of lines
    pc,               \* position inside unified_diff
    \* ---- Registry::resolve_dependencies ----
    registry,         \* name -> dependency list, for the registered names
    names,            \* the requested names
    name_idx,         \* position of the `for name in names` loop (0-based)
    stack,            \* call stack of resolve_recursive: frames [name, dep]
    resolved,         \* Vec<String>
    visited,          \* HashSet<String>
    visit_order,      \* the names in the order of their visited.insert
    rpc,              \* position inside resolve_dependencies
    \* ---- the add, diff and update commands ----
    args,             \* the command and its arguments
    dir_exists,       \* the components directory exists
    files,            \* content of <name>.rs, for every registry name
    backups,          \* content of <name>.rs.bak, for every registry name
    mod_rs,           \* mod.rs: whether it exists, and its lines
    requested,        \* add: Vec<&str> requested
    worklist,         \* to_diff, to_update or to_install
    position,         \* finished iterations of the loop over the work list
    counts,           \* the counters of the loop
    log,              \* the lines printed, as events
    result,           \* "running", "Ok" or the error run returns
    cpc,              \* position inside run
    \* ---- the comparison of one component, on the text of its two files ----
    registry_content, \* the embedded source, as its sequence of characters
    local_content,    \* the local file, as its sequence of characters
    classified        \* "pending", "up_to_date" or "modified"

diffVars == <<old_lines, new_lines, table, i, j, ops, tagged, old_lineno,
              new_lineno, change_indices, hunk_ranges, hunks, output, pc>>
resVars == <<registry, names, name_idx, stack, resolved, visited, visit_order,
             rpc>>
fsVars == <<dir_exists, files, backups, mod_rs>>
cliVars == <<args, dir_exists, files, backups, mod_rs, requested, worklist,
             position, counts, log, result, cpc>>
textVars == <<registry_content, local_content, classified>>
vars == <<old_lines, new_lines, table, i, j, ops, tagged, old_lineno,
          new_lineno, change_indices, hunk_ranges, hunks, output, pc,
          registry, names, name_idx, stack, resolved, visited, visit_order,
          rpc,
          args, dir_exists, files, backups, mod_rs, requested, worklist,
          position, counts, log, result, cpc,
          registry_content, local_content, classified>>

----------------------------------------------------------------------------
(* Bounds of the explored inputs *)

\* longest line sequence of the exhaustive family
MaxLen == 4
\* length of the old text of the edited-file family
LongLen == 12
\* number of edited positions in the edited-file family
MaxEdits == 2
\* longest dependency list of a registry entry
MaxDeps == 2
\* longest list of requested names
MaxReq == 2

\* line contents of the exhaustive family
Lines == {"a", "b"}
\* a file of pairwise distinct lines, and a line that occurs nowhere in it
Base == <<"l01", "l02", "l03", "l04", "l05", "l06", "l07", "l08", "l09",
          "l10", "l11", "l12", "l13", "l14", "l15", "l16", "l17", "l18",
          "l19", "l20">>
Fresh == "x"

Min(x, y) == IF x <= y THEN x ELSE y
Max(x, y) == IF x >= y THEN x ELSE y

SeqsUpTo(S, n) == UNION {[1..k -> S] : k \in 0..n}

----------------------------------------------------------------------------
(* diff_ops: the LCS table *)

\* faulty variant: the score of the cell to the left is ignored
TableCell_NoLeft(oldLine, newLine, diag, up, left) ==
    IF oldLine = newLine THEN diag + 1 ELSE up

\* one cell of the table; diag, up, left are table[i-1][j-1], table[i-1][j],
\* table[i][j-1]
TableCell(oldLine, newLine, diag, up, left) ==
    IF oldLine = newLine THEN diag + 1 ELSE Max(up, left)

\* row i of the table (as a sequence, column q at position q + 1), filled
\* left to right from the previous row
RECURSIVE FillRow(_, _, _, _, _)
FillRow(prev, oldLine, new, q, acc) ==
    IF q > Len(new) THEN acc
    ELSE FillRow(prev, oldLine, new, q + 1,
                 Append(acc, TableCell(oldLine, new[q], prev[q], prev[q + 1], acc[q])))

RECURSIVE FillTable(_, _, _, _)
FillTable(old, new, p, rows) ==
    IF p > Len(old) THEN rows
    ELSE FillTable(old, new, p + 1,
                   Append(rows, FillRow(rows[p], old[p], new, 1, <<0>>)))

\* vec![vec![0u32; n + 1]; m + 1] filled by the double loop
LcsTable(old, new) ==
    LET rows == FillTable(old, new, 1, <<[q \in 1..(Len(new) + 1) |-> 0]>>)
    IN  [p \in 0..Len(old) |-> [q \in 0..Len(new) |-> rows[p + 1][q + 1]]]

----------------------------------------------------------------------------
(* diff_ops: backtracking *)

\* faulty variant: a tie of the two scores goes to Remove
BacktrackChoice_TieRemove(old, new, t, p, q) ==
    IF p > 0 /\ q > 0 /\ old[p] = new[q] THEN "Equal"
    ELSE IF q > 0 /\ (p = 0 \/ t[p][q - 1] > t[p - 1][q]) THEN "Add"
    ELSE "Remove"

\* the branch taken by one iteration of the while loop at cursor (p, q)
BacktrackChoice(old, new, t, p, q) ==
    IF p > 0 /\ q > 0 /\ old[p] = new[q] THEN "Equal"
    ELSE IF q > 0 /\ (p = 0 \/ t[p][q - 1] >= t[p - 1][q]) THEN "Add"
    ELSE "Remove"

\* faulty variant: the script is left in backtracking order
Reverse_Missing(s) == s

\* ops.reverse()
RECURSIVE Reverse(_)
Reverse(s) == IF s = <<>> THEN <<>> ELSE Append(Reverse(Tail(s)), Head(s))

----------------------------------------------------------------------------
(* unified_diff: forward pass, grouping, emission *)

context == 3

TaggedLine(op, old, new, ol, nl) ==
    CASE op = "Equal"  -> [kind |-> "Context", old_line |-> ol, new_line |-> nl,
                           text |-> old[ol + 1]]
      [] op = "Remove" -> [kind |-> "Remove", old_line |-> ol, new_line |-> nl,
                           text |-> old[ol + 1]]
      [] op = "Add"    -> [kind |-> "Add", old_line |-> ol, new_line |-> nl,
                           text |-> new[nl + 1]]

\* old_lines[old_lineno] / new_lines[new_lineno] is in range
InRange(op, old, new, ol, nl) ==
    IF op = "Add" THEN nl < Len(new) ELSE ol < Len(old)

OldAdvance(op) == IF op = "Add" THEN 0 ELSE 1
NewAdvance(op) == IF op = "Remove" THEN 0 ELSE 1

\* the `for op in &ops` loop; ok = FALSE when an index is out of range
RECURSIVE ForwardPass(_, _, _, _, _, _, _)
ForwardPass(script, k, old, new, ol, nl, acc) ==
    IF k > Len(script)
    THEN [tagged |-> acc, old_lineno |-> ol, new_lineno |-> nl, ok |-> TRUE]
    ELSE IF ~InRange(script[k], old, new, ol, nl)
    THEN [tagged |-> acc, old_lineno |-> ol, new_lineno |-> nl, ok |-> FALSE]
    ELSE ForwardPass(script, k + 1, old, new,
                     ol + OldAdvance(script[k]), nl + NewAdvance(script[k]),
                     Append(acc, TaggedLine(script[k], old, new, ol, nl)))

\* faulty variant: the filter keeps the unchanged lines
IsChange_Inverted(kind) == kind = "Context"

IsChange(kind) == kind # "Context"

\* 0-based indices of the change lines, ascending
ChangeIndices(t) ==
    SelectSeq([k \in 1..Len(t) |-> k - 1], LAMBDA x : IsChange(t[x + 1].kind))

\* faulty variant: the gap is compared with one context width
GapSplits_OneContext(gap) == gap > context

\* faulty variant: a gap of exactly 2 * context already splits
GapSplits_OffByOne(gap) == gap >= context * 2

\* a new hunk range starts between two consecutive change indices
GapSplits(gap) == gap > context * 2

\* the `for &ci in &change_indices[1..]` loop followed by the final push
RECURSIVE GroupRanges(_, _, _, _, _)
GroupRanges(ci, k, range_start, range_end, acc) ==
    IF k > Len(ci) THEN Append(acc, <<range_start, range_end>>)
    ELSE LET gap == ci[k] - range_end - 1
         IN  IF GapSplits(gap)
             THEN GroupRanges(ci, k + 1, ci[k], ci[k],
                              Append(acc, <<range_start, range_end>>))
             ELSE GroupRanges(ci, k + 1, range_start, ci[k], acc)

\* usize::saturating_sub
SaturatingSub(x, y) == IF x >= y THEN x - y ELSE 0

\* faulty variant: the exclusive end stops one line short
HunkEnd_Short(last_change, len) == Min(last_change + context, len)

\* faulty variant: the window starts after the first change
HunkStart_AfterChange(first_change) == first_change + 1

HunkStart(first_change) == SaturatingSub(first_change, context)

\* faulty variant: the exclusive end is not clamped to tagged.len()
HunkEnd_Unclamped(last_change, len) == last_change + context + 1

HunkEnd(last_change, len) == Min(last_change + context + 1, len)

\* faulty variant: the old start is left 0-indexed
OldStart_ZeroIndexed(line) == line.old_line

\* faulty variant: the old count filters on the wrong kind
OldCount_WrongKind(hunk_lines) ==
    Len(SelectSeq(hunk_lines, LAMBDA l : l.kind # "Remove"))

OldStart(line) == line.old_line + 1

\* faulty variant: the new start is left 0-indexed
NewStart_ZeroIndexed(line) == line.new_line

NewStart(line) == line.new_line + 1
OldCount(hunk_lines) == Len(SelectSeq(hunk_lines, LAMBDA l : l.kind # "Add"))

\* faulty variant: the new count filters on the wrong kind
NewCount_WrongKind(hunk_lines) ==
    Len(SelectSeq(hunk_lines, LAMBDA l : l.kind # "Add"))

NewCount(hunk_lines) == Len(SelectSeq(hunk_lines, LAMBDA l : l.kind # "Remove"))

Prefix(kind) ==
    CASE kind = "Context" -> " " [] kind = "Remove" -> "-" [] kind = "Add" -> "+"

HeaderLines == << [tag |-> "---"], [tag |-> "+++"] >>

HunkText(h) ==
    << [tag |-> "@@", old_start |-> h.old_start, old_count |-> h.old_count,
        new_start |-> h.new_start, new_count |-> h.new_count] >>
    \o [k \in 1..Len(h.lines) |->
          [tag |-> Prefix(h.lines[k].kind), text |-> h.lines[k].text]]

----------------------------------------------------------------------------
(* Inputs of unified_diff *)

\* the edits applied at one position of the old text
EditKinds == {"delete", "replace", "insert"}

EditedLine(line, kind) ==
    CASE kind = "keep"    -> <<line>>
      [] kind = "delete"  -> <<>>
      [] kind = "replace" -> <<Fresh>>
      [] kind = "insert"  -> <<Fresh, line>>

RECURSIVE ApplyEdits(_, _, _)
ApplyEdits(old, edits, k) ==
    IF k > Len(old) THEN <<>>
    ELSE EditedLine(old[k], edits[k]) \o ApplyEdits(old, edits, k + 1)

\* assignments of an edit to at most MaxEdits positions of 1..LongLen
EditPositions == {P \in SUBSET (1..LongLen) : Cardinality(P) <= MaxEdits}

EditPlans ==
    UNION {{[k \in 1..LongLen |-> IF k \in P THEN f[k] ELSE "keep"] :
               f \in [P -> EditKinds]} : P \in EditPositions}

\* one line of a three-line file replaced by a line that is not in the file
Substitution == << <<"a", "b", "c">>, <<"a", "x", "c">> >>

\* the (old, new) pairs explored: every pair of short sequences over Lines,
\* a long file of distinct lines against each of its edited versions, and
\* the substitution pair
DiffInputs ==
    {<<a, b>> : a \in SeqsUpTo(Lines, MaxLen), b \in SeqsUpTo(Lines, MaxLen)}
    \cup {Substitution}
    \cup {<<SubSeq(Base, 1, LongLen), ApplyEdits(SubSeq(Base, 1, LongLen), e, 1)>> :
             e \in EditPlans}

----------------------------------------------------------------------------
(* unified_diff as a state machine *)

DiffIdle ==
    /\ old_lines = <<>> /\ new_lines = <<>> /\ table = <<>>
    /\ i = 0 /\ j = 0 /\ ops = <<>> /\ tagged = <<>>
    /\ old_lineno = 0 /\ new_lineno = 0
    /\ change_indices = <<>> /\ hunk_ranges = <<>> /\ hunks = <<>>
    /\ output = <<>> /\ pc = "idle"

InitDiff ==
    /\ \E in \in DiffInputs : old_lines = in[1] /\ new_lines = in[2]
    /\ table = <<>>
    /\ i = 0 /\ j = 0 /\ ops = <<>> /\ tagged = <<>>
    /\ old_lineno = 0 /\ new_lineno = 0
    /\ change_indices = <<>> /\ hunk_ranges = <<>> /\ hunks = <<>>
    /\ output = <<>> /\ pc = "start"

\* unified_diff writes the file header and calls diff_ops, which builds the
\* table and places the cursor at (m, n)
BuildTable ==
    /\ pc = "start"
    /\ output' = HeaderLines
    /\ table' = LcsTable(old_lines, new_lines)
    /\ i' = Len(old_lines)
    /\ j' = Len(new_lines)
    /\ ops' = <<>>
    /\ pc' = "backtrack"
    /\ UNCHANGED <<old_lines, new_lines, tagged, old_lineno, new_lineno,
                   change_indices, hunk_ranges, hunks>>

\* one iteration of `while i > 0 || j > 0`
BacktrackStep ==
    /\ pc = "backtrack"
    /\ ~(i = 0 /\ j = 0)
    /\ LET op == BacktrackChoice(old_lines, new_lines, table, i, j)
       IN  /\ ops' = Append(ops, op)
           /\ i' = i - OldAdvance(op)
           /\ j' = j - NewAdvance(op)
    /\ UNCHANGED <<old_lines, new_lines, table, tagged, old_lineno, new_lineno,
                   change_indices, hunk_ranges, hunks, output, pc>>

\* the loop exits; ops.reverse(); diff_ops returns
BacktrackDone ==
    /\ pc = "backtrack"
    /\ i = 0 /\ j = 0
    /\ ops' = Reverse(ops)
    /\ pc' = "forward"
    /\ UNCHANGED <<old_lines, new_lines, table, i, j, tagged, old_lineno,
                   new_lineno, change_indices, hunk_ranges, hunks, output>>

\* the forward pass over ops and the collection of the change indices
TagLines ==
    /\ pc = "forward"
    /\ LET r == ForwardPass(ops, 1, old_lines, new_lines, 0, 0, <<>>)
       IN  /\ tagged' = r.tagged
           /\ old_lineno' = r.old_lineno
           /\ new_lineno' = r.new_lineno
           /\ change_indices' = IF r.ok THEN ChangeIndices(r.tagged) ELSE <<>>
           /\ pc' = IF r.ok THEN "group" ELSE "panic"
    /\ UNCHANGED <<old_lines, new_lines, table, i, j, ops, hunk_ranges, hunks,
                   output>>

\* `if change_indices.is_empty() { return output; }`
ReturnUnchanged ==
    /\ pc = "group"
    /\ change_indices = <<>>
    /\ pc' = "done"
    /\ UNCHANGED <<old_lines, new_lines, table, i, j, ops, tagged, old_lineno,
                   new_lineno, change_indices, hunk_ranges, hunks, output>>

\* the split of the change indices into hunk ranges
GroupHunks ==
    /\ pc = "group"
    /\ change_indices # <<>>
    /\ hunk_ranges' = GroupRanges(change_indices, 2, change_indices[1],
                                  change_indices[1], <<>>)
    /\ pc' = "emit"
    /\ UNCHANGED <<old_lines, new_lines, table, i, j, ops, tagged, old_lineno,
                   new_lineno, change_indices, hunks, output>>

\* one iteration of `for (first_change, last_change) in hunk_ranges`
EmitHunk ==
    /\ pc = "emit"
    /\ Len(hunks) < Len(hunk_ranges)
    /\ LET first_change == hunk_ranges[Len(hunks) + 1][1]
           last_change == hunk_ranges[Len(hunks) + 1][2]
           hunk_start == HunkStart(first_change)
           hunk_end == HunkEnd(last_change, Len(tagged))
           hunk_lines == SubSeq(tagged, hunk_start + 1, hunk_end)
       IN  IF hunk_start >= hunk_end \/ hunk_end > Len(tagged)
           THEN /\ pc' = "panic"
                /\ UNCHANGED <<hunks, output>>
           ELSE LET h == [first_change |-> first_change,
                          last_change |-> last_change,
                          hunk_start |-> hunk_start,
                          hunk_end |-> hunk_end,
                          old_start |-> OldStart(hunk_lines[1]),
                          new_start |-> NewStart(hunk_lines[1]),
                          old_count |-> OldCount(hunk_lines),
                          new_count |-> NewCount(hunk_lines),
                          lines |-> hunk_lines]
                IN  /\ hunks' = Append(hunks, h)
                    /\ output' = output \o HunkText(h)
                    /\ pc' = pc
    /\ UNCHANGED <<old_lines, new_lines, table, i, j, ops, tagged, old_lineno,
                   new_lineno, change_indices, hunk_ranges>>

\* the loop over hunk_ranges is over; unified_diff returns output
ReturnOutput ==
    /\ pc = "emit"
    /\ Len(hunks) = Len(hunk_ranges)
    /\ pc' = "done"
    /\ UNCHANGED <<old_lines, new_lines, table, i, j, ops, tagged, old_lineno,
                   new_lineno, change_indices, hunk_ranges, hunks, output>>

----------------------------------------------------------------------------
(* Registry::resolve_dependencies *)

\* the component names of the explored registries and requests
Names == {"a", "b", "c"}

Range(s) == {s[k] : k \in 1..Len(s)}

\* dependency lists: sequences of pairwise distinct names
DepLists == {s \in SeqsUpTo(Names, MaxDeps) : Cardinality(Range(s)) = Len(s)}

\* registries: any subset of Names registered, each with a dependency list
Registries == UNION {[D -> DepLists] : D \in SUBSET Names}

\* requests: the registries treat the names alike, so a request that is not
\* empty starts with one fixed name
Requests == {s \in SeqsUpTo(Names, MaxReq) : s = <<>> \/ s[1] = "a"}

\* faulty variant: only the first dependency is walked
Dependencies_FirstOnly(reg, name) ==
    IF name \in DOMAIN reg THEN SubSeq(reg[name], 1, Min(1, Len(reg[name])))
    ELSE <<>>

\* faulty variant: the dependencies are walked last to first
Dependencies_Reversed(reg, name) ==
    IF name \in DOMAIN reg
    THEN [k \in 1..Len(reg[name]) |-> reg[name][Len(reg[name]) + 1 - k]]
    ELSE <<>>

\* Registry::find followed by `.dependencies`; a name that find does not
\* return has no loop to run
Dependencies(reg, name) == IF name \in DOMAIN reg THEN reg[name] ELSE <<>>

\* faulty variant: a name that find does not return is not pushed
Push_KnownOnly(vec, name) ==
    IF name \in DOMAIN registry THEN Append(vec, name) ELSE vec

\* faulty variant: the name is inserted at the front of the vector
Push_Front(vec, name) == <<name>> \o vec

\* resolved.push(name.to_string())
Push(vec, name) == Append(vec, name)

ResolveIdle ==
    /\ registry = <<>> /\ names = <<>> /\ name_idx = 0 /\ stack = <<>>
    /\ resolved = <<>> /\ visited = {} /\ visit_order = <<>> /\ rpc = "idle"

InitResolve ==
    /\ registry \in Registries
    /\ names \in Requests
    /\ name_idx = 0
    /\ stack = <<>>
    /\ resolved = <<>>
    /\ visited = {}
    /\ visit_order = <<>>
    /\ rpc = "loop"

\* faulty variant: only the names of the calls in progress count as visited
Contains_OnPath(seen, name) == \E k \in 1..Len(stack) : stack[k].name = name

\* faulty variant: no name ever counts as visited
Contains_Never(seen, name) == FALSE

\* visited.contains(name)
Contains(seen, name) == name \in seen

\* the effect on visited and stack of calling resolve_recursive(name) up to
\* its first nested call: an already visited name returns at once, any other
\* is marked and gets a frame whose dependency loop is at position 0
Enter(name, stk) ==
    IF Contains(visited, name)
    THEN /\ visited' = visited
         /\ visit_order' = visit_order
         /\ stack' = stk
    ELSE /\ visited' = visited \cup {name}
         /\ visit_order' = Append(visit_order, name)
         /\ stack' = Append(stk, [name |-> name, dep |-> 0])

Top == stack[Len(stack)]

\* `for name in names { self.resolve_recursive(name, ..) }`: the next call
ResolveName ==
    /\ rpc = "loop"
    /\ stack = <<>>
    /\ name_idx < Len(names)
    /\ Enter(names[name_idx + 1], stack)
    /\ name_idx' = name_idx + 1
    /\ UNCHANGED <<registry, names, resolved, rpc>>

\* `for dep in &component.dependencies { self.resolve_recursive(dep, ..) }`:
\* the next call made by the frame on top of the stack
ResolveDep ==
    /\ rpc = "loop"
    /\ stack # <<>>
    /\ Top.dep < Len(Dependencies(registry, Top.name))
    /\ Enter(Dependencies(registry, Top.name)[Top.dep + 1],
             [stack EXCEPT ![Len(stack)].dep = Top.dep + 1])
    /\ UNCHANGED <<registry, names, name_idx, resolved, rpc>>

\* the dependency loop of the top frame is over: push the name and return
ResolveFinish ==
    /\ rpc = "loop"
    /\ stack # <<>>
    /\ Top.dep >= Len(Dependencies(registry, Top.name))
    /\ resolved' = Push(resolved, Top.name)
    /\ stack' = SubSeq(stack, 1, Len(stack) - 1)
    /\ UNCHANGED <<registry, names, name_idx, visited, visit_order, rpc>>

\* the loop over names is over: resolve_dependencies returns resolved
ResolveReturn ==
    /\ rpc = "loop"
    /\ stack = <<>>
    /\ name_idx = Len(names)
    /\ rpc' = "done"
    /\ UNCHANGED <<registry, names, name_idx, stack, resolved, visited,
                   visit_order>>

----------------------------------------------------------------------------
(* The default registry and the project directory *)

\* Registry::component_names() of default_registry(), in registration order
ComponentNames ==
    << "button", "input", "label", "checkbox", "radio", "switch", "slider",
       "select", "toggle", "toggle_group", "card", "dialog", "alert",
       "alert_dialog", "tooltip", "popover", "hover_card", "dropdown_menu",
       "sheet", "drawer", "toast", "sonner" >>

\* faulty variant: dialog and alert_dialog depend on each other
DefaultDependencies_Cyclic(name) ==
    CASE name = "toggle_group" -> <<"toggle">>
      [] name = "dialog"       -> <<"alert_dialog">>
      [] name = "alert_dialog" -> <<"dialog">>
      [] name = "drawer"       -> <<"sheet">>
      [] OTHER                 -> <<>>

\* faulty variant: toggle_group declares no dependency
DefaultDependencies_NoToggle(name) ==
    CASE name = "dialog"       -> <<"button">>
      [] name = "alert_dialog" -> <<"dialog">>
      [] name = "drawer"       -> <<"sheet">>
      [] OTHER                 -> <<>>

\* the `dependencies` field of the entries of default_registry()
DefaultDependencies(name) ==
    CASE name = "toggle_group" -> <<"toggle">>
      [] name = "dialog"       -> <<"button">>
      [] name = "alert_dialog" -> <<"dialog">>
      [] name = "drawer"       -> <<"sheet">>
      [] OTHER                 -> <<>>

\* default_registry() as the resolver sees it: name -> dependency list
DefaultRegistry == [n \in Range(ComponentNames) |-> DefaultDependencies(n)]

\* registry.find(name).is_some()
Found(name) == name \in DOMAIN DefaultRegistry

\* the names in the byte order of String, the order of Vec<String>::sort
ByteOrder ==
    << "alert", "alert_dialog", "button", "card", "checkbox", "dialog",
       "drawer", "dropdown_menu", "hover_card", "input", "label", "popover",
       "radio", "select", "sheet", "slider", "sonner", "switch", "toast",
       "toggle", "toggle_group", "tooltip" >>

Rank(name) == CHOOSE k \in 1..Len(ByteOrder) : ByteOrder[k] = name

\* modules.sort()
RECURSIVE Insert(_, _)
Insert(sorted, name) ==
    IF sorted = <<>> THEN <<name>>
    ELSE IF Rank(name) < Rank(sorted[1]) THEN <<name>> \o sorted
    ELSE <<sorted[1]>> \o Insert(Tail(sorted), name)

RECURSIVE Sort(_)
Sort(modules) ==
    IF modules = <<>> THEN <<>>
    ELSE Insert(Sort(SubSeq(modules, 1, Len(modules) - 1)),
                modules[Len(modules)])

\* contents of a file of the components directory: no such file, the
\* embedded registry source of the component, a locally edited text, the stub
\* that add generates, or what an interrupted write leaves behind
NoFile == "absent"
Interrupted == "partial"

\* component_sources::get_component_source(name)
GetComponentSource(name) == IF Found(name) THEN "source" ELSE "none"

\* generate_component_stub(name)
GenerateComponentStub(name) == "stub"

\* the text update_mod_rs writes for a module list, as its lines
ModRsContent(modules) ==
    << [kind |-> "doc"], [kind |-> "blank"] >>
    \o [k \in 1..Len(modules) |-> [kind |-> "mod", name |-> modules[k]]]

\* the `pub mod <name>;` lines of an existing mod.rs
ParseModules(lines) ==
    LET mods == SelectSeq(lines, LAMBDA l : l.kind = "mod")
    IN  [k \in 1..Len(mods) |-> mods[k].name]

\* `for name in new_components { if !modules.contains(name) { push } }`
RECURSIVE AddNew(_, _, _)
AddNew(modules, new_components, k) ==
    IF k > Len(new_components) THEN modules
    ELSE AddNew(IF new_components[k] \in Range(modules) THEN modules
                ELSE Append(modules, new_components[k]),
                new_components, k + 1)

\* installed_components: the registry names whose file exists, in registry
\* order
InstalledComponents(fs) ==
    SelectSeq(ComponentNames, LAMBDA n : fs[n] # NoFile)

\* faulty variant: only the first requested name is looked up
FirstUnknown_FirstOnly(components) ==
    IF components # <<>> /\ ~Found(components[1]) THEN components[1] ELSE "none"

\* the first requested name that find does not return, in a validation loop
\* that has one
FirstUnknown(components) ==
    LET bad == SelectSeq(components, LAMBDA n : ~Found(n))
    IN  IF bad = <<>> THEN "none" ELSE bad[1]

\* find_dependent(install_order, dep_name, registry)
FindDependent(install_order, dep_name) ==
    LET users == SelectSeq(install_order,
                   LAMBDA n : Found(n) /\ dep_name \in Range(DefaultRegistry[n]))
    IN  IF users = <<>> THEN "unknown" ELSE users[1]

----------------------------------------------------------------------------
(* Command lines and project directories explored *)

\* longest list of component names on a command line
MaxArgs == 2

\* the names given on command lines: three registered components in a
\* dependency chain and one the registry does not hold
ArgNames == {"button", "dialog", "alert_dialog", "ghost"}

\* the components that may be installed before the command runs
LocalNames == {"button", "dialog", "alert_dialog"}

\* the command lines explored: the three commands over ArgNames, and
\* `add toggle_group`
CommandLines ==
    {[command |-> "add", components |-> c, all |-> FALSE, overwrite |-> o,
      force |-> FALSE] : c \in SeqsUpTo(ArgNames, MaxArgs), o \in BOOLEAN}
    \cup {[command |-> "add", components |-> <<"toggle_group">>,
           all |-> FALSE, overwrite |-> o, force |-> FALSE] : o \in BOOLEAN}
    \cup {[command |-> "add", components |-> c, all |-> TRUE, overwrite |-> o,
           force |-> FALSE] : c \in SeqsUpTo(ArgNames, 1), o \in BOOLEAN}
    \cup {[command |-> "diff", components |-> c, all |-> FALSE,
           overwrite |-> FALSE, force |-> FALSE] :
             c \in SeqsUpTo(ArgNames, MaxArgs)}
    \cup {[command |-> "update", components |-> c, all |-> FALSE,
           overwrite |-> FALSE, force |-> f] :
             c \in SeqsUpTo(ArgNames, MaxArgs), f \in BOOLEAN}

NoFiles == [n \in Range(ComponentNames) |-> NoFile]

\* the component files present before the command: source or edited copies
\* of some of LocalNames
LocalFiles ==
    {[n \in Range(ComponentNames) |-> IF n \in LocalNames THEN f[n] ELSE NoFile] :
        f \in [LocalNames -> {NoFile, "source", "edited"}]}

\* the projects explored: no components directory yet, or a directory with
\* some component files and either no mod.rs or the one add wrote for them
Projects ==
    {[dir_exists |-> FALSE, files |-> NoFiles,
      mod_rs |-> [exists |-> FALSE, lines |-> <<>>]]}
    \cup {[dir_exists |-> TRUE, files |-> f,
           mod_rs |-> [exists |-> FALSE, lines |-> <<>>]] : f \in LocalFiles}
    \cup {[dir_exists |-> TRUE, files |-> f,
           mod_rs |-> [exists |-> TRUE,
                       lines |-> ModRsContent(Sort(InstalledComponents(f)))]] :
             f \in LocalFiles}

NoCounts ==
    [added |-> 0, skipped |-> 0, updated |-> 0, up_to_date |-> 0,
     modified |-> 0, not_installed |-> 0]

CliIdle ==
    /\ args = [command |-> "none"]
    /\ dir_exists = FALSE /\ files = <<>> /\ backups = <<>>
    /\ mod_rs = [exists |-> FALSE, lines |-> <<>>]
    /\ requested = <<>> /\ worklist = <<>> /\ position = 0
    /\ counts = NoCounts /\ log = <<>> /\ result = "none" /\ cpc = "idle"

InitCli ==
    /\ args \in CommandLines
    /\ \E p \in Projects :
          /\ dir_exists = p.dir_exists
          /\ files = p.files
          /\ mod_rs = p.mod_rs
    /\ backups = NoFiles
    /\ requested = <<>> /\ worklist = <<>> /\ position = 0
    /\ counts = NoCounts /\ log = <<>> /\ result = "running" /\ cpc = "load"

----------------------------------------------------------------------------
(* commands::diff::run, commands::update::run and commands::add::run *)

\* a line printed by the command; an "error" event is the Err that run
\* returns, printed by main
Event(ev, name) == [ev |-> ev, name |-> name]

\* `bail!` or `?` on an Err: run returns the error at once
Fail(err, name) ==
    /\ result' = err
    /\ log' = Append(log, Event("error", name))
    /\ cpc' = "done"

\* the component of the current iteration of the loop over the work list
Current == worklist[position + 1]

\* `continue` or the end of the loop body, after printing one line
NextComponent(ev, counter) ==
    /\ log' = Append(log, Event(ev, Current))
    /\ counts' = [counts EXCEPT ![counter] = @ + 1]
    /\ position' = position + 1

\* Config::load at the head of every command
LoadConfig ==
    /\ cpc = "load"
    /\ \E loaded \in BOOLEAN :
          IF loaded
          THEN /\ cpc' = IF args.command = "add" THEN "requested" ELSE "dir"
               /\ UNCHANGED <<log, result>>
          ELSE Fail("NoConfig", "")
    /\ UNCHANGED <<args, fsVars, requested, worklist, position, counts>>

\* diff, update: `if !components_dir.exists() { bail!(..) }`
DirCheck ==
    /\ cpc = "dir"
    /\ IF dir_exists
       THEN cpc' = "select" /\ UNCHANGED <<log, result>>
       ELSE Fail("NoDir", "")
    /\ UNCHANGED <<args, fsVars, requested, worklist, position, counts>>

\* diff, update without component names: the installed components, and the
\* early return when there are none
SelectInstalled ==
    /\ cpc = "select"
    /\ args.components = <<>>
    /\ worklist' = InstalledComponents(files)
    /\ IF InstalledComponents(files) = <<>>
       THEN /\ log' = Append(log, Event("none_installed", ""))
            /\ result' = "Ok"
            /\ cpc' = "done"
       ELSE cpc' = "loop" /\ UNCHANGED <<log, result>>
    /\ UNCHANGED <<args, fsVars, requested, position, counts>>

\* diff, update with component names: the validation loop
ValidateNames ==
    /\ cpc = "select"
    /\ args.components # <<>>
    /\ IF FirstUnknown(args.components) # "none"
       THEN /\ Fail("UnknownComponent", FirstUnknown(args.components))
            /\ worklist' = worklist
       ELSE /\ worklist' = args.components
            /\ cpc' = "loop"
            /\ UNCHANGED <<log, result>>
    /\ UNCHANGED <<args, fsVars, requested, position, counts>>

\* diff: one iteration of `for name in &to_diff`
DiffComponent ==
    /\ cpc = "loop"
    /\ args.command = "diff"
    /\ position < Len(worklist)
    /\ IF files[Current] = NoFile
       THEN NextComponent("not_installed", "not_installed")
            /\ UNCHANGED <<result, cpc>>
       ELSE \E readable \in BOOLEAN :
               IF ~readable
               THEN Fail("ReadFailed", Current) /\ UNCHANGED <<counts, position>>
               ELSE IF GetComponentSource(Current) = "none"
               THEN /\ log' = Append(log, Event("no_source", Current))
                    /\ position' = position + 1
                    /\ UNCHANGED <<counts, result, cpc>>
               ELSE IF files[Current] = GetComponentSource(Current)
               THEN NextComponent("up_to_date", "up_to_date")
                    /\ UNCHANGED <<result, cpc>>
               ELSE NextComponent("modified", "modified")
                    /\ UNCHANGED <<result, cpc>>
    /\ UNCHANGED <<args, fsVars, requested, worklist>>

\* diff: the summary after the loop
DiffSummary ==
    /\ cpc = "loop"
    /\ args.command = "diff"
    /\ position = Len(worklist)
    /\ log' = Append(log, Event("summary", ""))
    /\ result' = "Ok"
    /\ cpc' = "done"
    /\ UNCHANGED <<args, fsVars, requested, worklist, position, counts>>

\* faulty variant: the update is written without a backup
StepAfterConsent_NoBackup == "write"

\* update: the step taken once should_update is true
StepAfterConsent == "backup"

\* update: an iteration of `for name in &to_update` up to the decision to
\* update: existence, registry source, read, comparison, diff, --force
UpdateCompare ==
    /\ cpc = "loop"
    /\ args.command = "update"
    /\ position < Len(worklist)
    /\ IF files[Current] = NoFile
       THEN NextComponent("not_installed", "skipped")
            /\ UNCHANGED <<result, cpc>>
       ELSE IF GetComponentSource(Current) = "none"
       THEN NextComponent("no_source", "skipped")
            /\ UNCHANGED <<result, cpc>>
       ELSE \E readable \in BOOLEAN :
               IF ~readable
               THEN Fail("ReadFailed", Current) /\ UNCHANGED <<counts, position>>
               ELSE IF files[Current] = GetComponentSource(Current)
               THEN NextComponent("up_to_date", "up_to_date")
                    /\ UNCHANGED <<result, cpc>>
               ELSE /\ log' = Append(log, Event("modified", Current))
                    /\ cpc' = IF args.force THEN StepAfterConsent ELSE "confirm"
                    /\ UNCHANGED <<counts, position, result>>
    /\ UNCHANGED <<args, fsVars, requested, worklist>>

\* faulty variant: the answer to the prompt is not honoured
ShouldUpdate_Always(answer) == TRUE

\* update: should_update, bound to the answer of the prompt
ShouldUpdate(answer) == answer = "yes"

\* update: the confirmation prompt, which echoes a "yes" on the terminal,
\* and `if !should_update`
UpdateConfirm ==
    /\ cpc = "confirm"
    /\ \E answer \in {"yes", "no", "failed"} :
          IF answer = "failed"
          THEN /\ Fail("PromptFailed", Current)
               /\ UNCHANGED <<counts, position>>
          ELSE IF ShouldUpdate(answer)
          THEN /\ cpc' = StepAfterConsent
               /\ log' = IF answer = "yes"
                         THEN Append(log, Event("confirmed", Current))
                         ELSE log
               /\ UNCHANGED <<counts, position, result>>
          ELSE /\ NextComponent("declined", "skipped")
               /\ cpc' = "loop"
               /\ UNCHANGED result
    /\ UNCHANGED <<args, fsVars, requested, worklist>>

\* update: std::fs::copy(&local_path, &backup_path)
UpdateBackup ==
    /\ cpc = "backup"
    /\ \E copied \in BOOLEAN :
          IF copied
          THEN /\ backups' = [backups EXCEPT ![Current] = files[Current]]
               /\ log' = Append(log, Event("backed_up", Current))
               /\ cpc' = "write"
               /\ UNCHANGED result
          ELSE /\ \E left \in {backups[Current], Interrupted} :
                     backups' = [backups EXCEPT ![Current] = left]
               /\ Fail("BackupFailed", Current)
    /\ UNCHANGED <<args, dir_exists, files, mod_rs, requested, worklist,
                   position, counts>>

\* update: std::fs::write(&local_path, registry_content)
UpdateWrite ==
    /\ cpc = "write"
    /\ \E written \in BOOLEAN :
          IF written
          THEN /\ files' = [files EXCEPT ![Current] = GetComponentSource(Current)]
               /\ NextComponent("updated", "updated")
               /\ cpc' = "loop"
               /\ UNCHANGED result
          ELSE /\ \E left \in {files[Current], Interrupted} :
                     files' = [files EXCEPT ![Current] = left]
               /\ Fail("WriteFailed", Current)
               /\ UNCHANGED <<counts, position>>
    /\ UNCHANGED <<args, dir_exists, backups, mod_rs, requested, worklist>>

\* update: the summary after the loop
UpdateSummary ==
    /\ cpc = "loop"
    /\ args.command = "update"
    /\ position = Len(worklist)
    /\ log' = Append(log, Event("summary", ""))
    /\ result' = "Ok"
    /\ cpc' = "done"
    /\ UNCHANGED <<args, fsVars, requested, worklist, position, counts>>

\* add: `requested`, from --all or from the validated component names
AddRequested ==
    /\ cpc = "requested"
    /\ IF args.all
       THEN /\ requested' = ComponentNames
            /\ cpc' = "resolve"
            /\ UNCHANGED <<log, result>>
       ELSE IF args.components = <<>>
       THEN Fail("NoNames", "") /\ requested' = requested
       ELSE IF FirstUnknown(args.components) # "none"
       THEN /\ Fail("UnknownComponent", FirstUnknown(args.components))
            /\ requested' = requested
       ELSE /\ requested' = args.components
            /\ cpc' = "resolve"
            /\ UNCHANGED <<log, result>>
    /\ UNCHANGED <<args, fsVars, worklist, position, counts>>

\* add: the call registry.resolve_dependencies(&requested)
AddResolve ==
    /\ cpc = "resolve"
    /\ registry' = DefaultRegistry
    /\ names' = requested
    /\ name_idx' = 0
    /\ stack' = <<>>
    /\ resolved' = <<>>
    /\ visited' = {}
    /\ visit_order' = <<>>
    /\ rpc' = "loop"
    /\ cpc' = "resolving"
    /\ UNCHANGED <<args, fsVars, requested, worklist, position, counts, log,
                   result>>

\* faulty variant: the files are copied last to first
InstallOrder_Reversed(to_install) ==
    [k \in 1..Len(to_install) |-> to_install[Len(to_install) + 1 - k]]

\* add: the order of `for name in &to_install`
InstallOrder(to_install) == to_install

\* add: to_install is bound to the resolver's result and
\* std::fs::create_dir_all(&components_path) runs
AddCreateDir ==
    /\ cpc = "resolving"
    /\ rpc = "done"
    /\ \E created \in {TRUE, dir_exists} :
          IF created
          THEN /\ dir_exists' = TRUE
               /\ worklist' = InstallOrder(resolved)
               /\ cpc' = "loop"
               /\ UNCHANGED <<log, result>>
          ELSE /\ Fail("CreateDirFailed", "")
               /\ UNCHANGED <<dir_exists, worklist>>
    /\ UNCHANGED <<args, files, backups, mod_rs, requested, position, counts>>

\* faulty variant: an existing file is never skipped
SkipExisting_Never(exists, overwrite) == FALSE

\* add: `if dest.exists() && !args.overwrite`
SkipExisting(exists, overwrite) == exists /\ ~overwrite

\* add: one iteration of `for name in &to_install`; every registry entry has
\* the single file <name>.rs
AddComponent ==
    /\ cpc = "loop"
    /\ args.command = "add"
    /\ position < Len(worklist)
    /\ IF ~Found(Current)
       THEN /\ position' = position + 1
            /\ UNCHANGED <<files, log, counts, result, cpc>>
       ELSE IF SkipExisting(files[Current] # NoFile, args.overwrite)
       THEN /\ NextComponent("skipped", "skipped")
            /\ UNCHANGED <<files, result, cpc>>
       ELSE \E written \in BOOLEAN :
               IF written
               THEN /\ files' = [files EXCEPT ![Current] = GenerateComponentStub(Current)]
                    /\ log' = Append(log,
                          [ev |-> "added", name |-> Current,
                           dependency_of |->
                              IF Current \in Range(requested) THEN ""
                              ELSE FindDependent(worklist, Current)])
                    /\ counts' = [counts EXCEPT !.added = @ + 1]
                    /\ position' = position + 1
                    /\ UNCHANGED <<result, cpc>>
               ELSE /\ \E left \in {files[Current], Interrupted} :
                          files' = [files EXCEPT ![Current] = left]
                    /\ Fail("WriteFailed", Current)
                    /\ UNCHANGED <<counts, position>>
    /\ UNCHANGED <<args, dir_exists, backups, mod_rs, requested, worklist>>

\* add: update_mod_rs(&components_path, &to_install) after the loop
AddUpdateModRs ==
    /\ cpc = "loop"
    /\ args.command = "add"
    /\ position = Len(worklist)
    /\ LET existing == IF mod_rs.exists THEN ParseModules(mod_rs.lines) ELSE <<>>
           modules == Sort(AddNew(existing, worklist, 1))
       IN  \E outcome \in {"written", "write_failed"}
                            \cup (IF mod_rs.exists THEN {"read_failed"} ELSE {}) :
              CASE outcome = "written" ->
                      /\ mod_rs' = [exists |-> TRUE, lines |-> ModRsContent(modules)]
                      /\ log' = Append(log, Event("mod_rs", ""))
                      /\ cpc' = "summary"
                      /\ UNCHANGED result
                [] outcome = "read_failed" ->
                      /\ Fail("ModRsFailed", "")
                      /\ UNCHANGED mod_rs
                [] outcome = "write_failed" ->
                      /\ \E left \in {mod_rs, [exists |-> TRUE, lines |-> <<>>]} :
                            mod_rs' = left
                      /\ Fail("ModRsFailed", "")
    /\ UNCHANGED <<args, dir_exists, files, backups, requested, worklist,
                   position, counts>>

\* add: the closing lines
AddSummary ==
    /\ cpc = "summary"
    /\ log' = Append(log, Event("summary", ""))
    /\ result' = "Ok"
    /\ cpc' = "done"
    /\ UNCHANGED <<args, fsVars, requested, worklist, position, counts>>

----------------------------------------------------------------------------
(* Specifications *)

----------------------------------------------------------------------------
(* The comparison of a local file with its registry source, on their text *)

\* longest text of the explored files, in characters
MaxText == 3

LF == "\n"
CR == "\r"

\* the characters of the explored texts
Chars == {"a", LF, CR}

FileTexts == SeqsUpTo(Chars, MaxText)

\* str::lines maps each piece: the "\n" is stripped, then a "\r" before it
StripCR(line) ==
    IF line # <<>> /\ line[Len(line)] = CR
    THEN SubSeq(line, 1, Len(line) - 1)
    ELSE line

\* str::lines: the text is split after each "\n"; a last piece without
\* "\n" is a line as it stands, and an empty last piece is no line
RECURSIVE SplitLines(_, _, _)
SplitLines(text, k, piece) ==
    IF k > Len(text)
    THEN IF piece = <<>> THEN <<>> ELSE <<piece>>
    ELSE IF text[k] = LF
    THEN <<StripCR(piece)>> \o SplitLines(text, k + 1, <<>>)
    ELSE SplitLines(text, k + 1, Append(piece, text[k]))

\* old.lines().collect() and new.lines().collect()
StrLines(text) == SplitLines(text, 1, <<>>)

TextIdle ==
    /\ registry_content = <<>> /\ local_content = <<>>
    /\ classified = "idle"

InitText ==
    /\ registry_content \in FileTexts
    /\ local_content \in FileTexts
    /\ classified = "pending"

\* `if local_content == registry_content` of the diff and update loops, and
\* on its else branch the call unified_diff(registry_content, &local_content)
\* up to the two lines() calls
CompareContent ==
    /\ classified = "pending"
    /\ IF local_content = registry_content
       THEN /\ classified' = "up_to_date"
            /\ UNCHANGED diffVars
       ELSE /\ classified' = "modified"
            /\ old_lines' = StrLines(registry_content)
            /\ new_lines' = StrLines(local_content)
            /\ pc' = "start"
            /\ UNCHANGED <<table, i, j, ops, tagged, old_lineno, new_lineno,
                           change_indices, hunk_ranges, hunks, output>>
    /\ UNCHANGED <<registry_content, local_content>>

NextDiff ==
    \/ BuildTable /\ UNCHANGED <<resVars, cliVars, textVars>>
    \/ BacktrackStep /\ UNCHANGED <<resVars, cliVars, textVars>>
    \/ BacktrackDone /\ UNCHANGED <<resVars, cliVars, textVars>>
    \/ TagLines /\ UNCHANGED <<resVars, cliVars, textVars>>
    \/ ReturnUnchanged /\ UNCHANGED <<resVars, cliVars, textVars>>
    \/ GroupHunks /\ UNCHANGED <<resVars, cliVars, textVars>>
    \/ EmitHunk /\ UNCHANGED <<resVars, cliVars, textVars>>
    \/ ReturnOutput /\ UNCHANGED <<resVars, cliVars, textVars>>

NextResolve ==
    \/ ResolveName /\ UNCHANGED <<diffVars, cliVars, textVars>>
    \/ ResolveDep /\ UNCHANGED <<diffVars, cliVars, textVars>>
    \/ ResolveFinish /\ UNCHANGED <<diffVars, cliVars, textVars>>
    \/ ResolveReturn /\ UNCHANGED <<diffVars, cliVars, textVars>>

NextCli ==
    \/ LoadConfig /\ UNCHANGED <<diffVars, resVars, textVars>>
    \/ DirCheck /\ UNCHANGED <<diffVars, resVars, textVars>>
    \/ SelectInstalled /\ UNCHANGED <<diffVars, resVars, textVars>>
    \/ ValidateNames /\ UNCHANGED <<diffVars, resVars, textVars>>
    \/ DiffComponent /\ UNCHANGED <<diffVars, resVars, textVars>>
    \/ DiffSummary /\ UNCHANGED <<diffVars, resVars, textVars>>
    \/ UpdateCompare /\ UNCHANGED <<diffVars, resVars, textVars>>
    \/ UpdateConfirm /\ UNCHANGED <<diffVars, resVars, textVars>>
    \/ UpdateBackup /\ UNCHANGED <<diffVars, resVars, textVars>>
    \/ UpdateWrite /\ UNCHANGED <<diffVars, resVars, textVars>>
    \/ UpdateSummary /\ UNCHANGED <<diffVars, resVars, textVars>>
    \/ AddRequested /\ UNCHANGED <<diffVars, resVars, textVars>>
    \/ AddResolve /\ UNCHANGED <<diffVars, textVars>>
    \/ ResolveName /\ UNCHANGED <<diffVars, cliVars, textVars>>
    \/ ResolveDep /\ UNCHANGED <<diffVars, cliVars, textVars>>
    \/ ResolveFinish /\ UNCHANGED <<diffVars, cliVars, textVars>>
    \/ ResolveReturn /\ UNCHANGED <<diffVars, cliVars, textVars>>
    \/ AddCreateDir /\ UNCHANGED <<diffVars, resVars, textVars>>
    \/ AddComponent /\ UNCHANGED <<diffVars, resVars, textVars>>
    \/ AddUpdateModRs /\ UNCHANGED <<diffVars, resVars, textVars>>
    \/ AddSummary /\ UNCHANGED <<diffVars, resVars, textVars>>

\* one comparison of a local file with its registry source, and the
\* unified_diff it prints
NextText ==
    \/ CompareContent /\ UNCHANGED <<resVars, cliVars>>
    \/ BuildTable /\ UNCHANGED <<resVars, cliVars, textVars>>
    \/ BacktrackStep /\ UNCHANGED <<resVars, cliVars, textVars>>
    \/ BacktrackDone /\ UNCHANGED <<resVars, cliVars, textVars>>
    \/ TagLines /\ UNCHANGED <<resVars, cliVars, textVars>>
    \/ ReturnUnchanged /\ UNCHANGED <<resVars, cliVars, textVars>>
    \/ GroupHunks /\ UNCHANGED <<resVars, cliVars, textVars>>
    \/ EmitHunk /\ UNCHANGED <<resVars, cliVars, textVars>>
    \/ ReturnOutput /\ UNCHANGED <<resVars, cliVars, textVars>>

\* unified_diff run on each explored pair of line sequences
Init == InitDiff /\ ResolveIdle /\ CliIdle /\ TextIdle
Next == NextDiff
Spec == Init /\ [][Next]_vars

\* resolve_dependencies run on each explored registry and request
ResolveInit == DiffIdle /\ InitResolve /\ CliIdle /\ TextIdle
SpecResolve == ResolveInit /\ [][NextResolve]_vars

\* add, diff and update run on each explored command line and project
CliInit == DiffIdle /\ ResolveIdle /\ InitCli /\ TextIdle
SpecCli == CliInit /\ [][NextCli]_vars

\* the comparison run on each explored pair of texts
TextInit == DiffIdle /\ ResolveIdle /\ CliIdle /\ InitText
SpecText == TextInit /\ [][NextText]_vars

----------------------------------------------------------------------------
(* Properties of diff_ops *)

\* diff_ops has returned its script
ScriptReturned == pc \in {"forward", "group", "emit", "done"}
\* the forward pass of unified_diff is over
Tagged == pc \in {"group", "emit", "done"}

\* number of old / new lines consumed by the operations before position k
OldBefore(script, k) == Cardinality({x \in 1..(k - 1) : script[x] # "Add"})
NewBefore(script, k) == Cardinality({x \in 1..(k - 1) : script[x] # "Remove"})

Texts(t) == [k \in 1..Len(t) |-> t[k].text]

\* C1: replaying the script of diff_ops consumes exactly the old lines with
\* its Equal and Remove operations and exactly the new lines with its Equal
\* and Add operations, each Equal pairing an old line with an identical new
\* line; after the forward pass the tagged lines that are not Add spell old,
\* those that are not Remove spell new, and the two counters stand at
\* len(old) and len(new).
C1_Reconstruction ==
    /\ ScriptReturned =>
         /\ OldBefore(ops, Len(ops) + 1) = Len(old_lines)
         /\ NewBefore(ops, Len(ops) + 1) = Len(new_lines)
         /\ \A k \in 1..Len(ops) :
               ops[k] = "Equal" =>
                  /\ OldBefore(ops, k) < Len(old_lines)
                  /\ NewBefore(ops, k) < Len(new_lines)
                  /\ old_lines[OldBefore(ops, k) + 1] = new_lines[NewBefore(ops, k) + 1]
    /\ pc # "panic"
    /\ Tagged =>
         /\ Texts(SelectSeq(tagged, LAMBDA l : l.kind # "Add")) = old_lines
         /\ Texts(SelectSeq(tagged, LAMBDA l : l.kind # "Remove")) = new_lines
         /\ old_lineno = Len(old_lines)
         /\ new_lineno = Len(new_lines)

\* a finished run whose script mixes all three operations asymmetrically
C1_Witness ==
    /\ pc = "done"
    /\ {"Equal", "Remove", "Add"} \subseteq Range(ops)
    /\ ops # Reverse(ops)
    /\ Len(old_lines) # Len(new_lines)

\* the positions (x, y) with a[x] = b[y], in row-major order
Matches(a, b) ==
    SelectSeq([k \in 1..(Len(a) * Len(b)) |->
                  << ((k - 1) \div Len(b)) + 1, ((k - 1) % Len(b)) + 1 >>],
              LAMBDA e : a[e[1]] = b[e[2]])

\* A common subsequence of length k is a chain of k matches increasing in
\* both coordinates.  ChainLevels(M, M, <<>>) lists, for k = 1, 2, ..., the
\* matches at which such a chain of length k can end, up to the last
\* non-empty level.
RECURSIVE ChainLevels(_, _, _)
ChainLevels(M, level, acc) ==
    IF level = <<>> THEN acc
    ELSE ChainLevels(M,
                     SelectSeq(M, LAMBDA e : \E x \in 1..Len(level) :
                                  level[x][1] < e[1] /\ level[x][2] < e[2]),
                     Append(acc, level))

\* length of a longest common subsequence of a[1..p] and b[1..q], read off
\* the chain levels of a and b
PrefixLcs(levels, p, q) ==
    Cardinality({k \in 1..Len(levels) :
                    \E x \in 1..Len(levels[k]) :
                       levels[k][x][1] <= p /\ levels[k][x][2] <= q})

\* the same for every prefix pair at once
LcsLengths(a, b) ==
    LET M == Matches(a, b)
    IN  IF M = <<>> THEN [p \in 0..Len(a) |-> [q \in 0..Len(b) |-> 0]]
        ELSE LET levels == ChainLevels(M, M, <<>>)
             IN  [p \in 0..Len(a) |-> [q \in 0..Len(b) |-> PrefixLcs(levels, p, q)]]

Count(script, op) == Cardinality({k \in 1..Len(script) : script[k] = op})

\* C3: when diff_ops returns, every cell table[p][q] holds the length of a
\* longest common subsequence of old[0..p] and new[0..q], the script has as
\* many Equal operations as a longest common subsequence of old and new has
\* lines, and its Remove and Add operations number m + n - 2 * LCS.
C3_MaximalCommonSubsequence ==
    pc = "forward" =>
       LET m == Len(old_lines)
           n == Len(new_lines)
           lcs == LcsLengths(old_lines, new_lines)
       IN  /\ table = lcs
           /\ Count(ops, "Equal") = lcs[m][n]
           /\ Count(ops, "Remove") + Count(ops, "Add") = m + n - 2 * lcs[m][n]

\* a script that keeps a proper, non-empty common subsequence of two
\* sequences in which a greedy match would not be maximal
C3_Witness ==
    /\ pc = "forward"
    /\ old_lines = <<"a", "b", "a">>
    /\ new_lines = <<"b", "a", "b">>
    /\ Count(ops, "Equal") = 2

\* the cursor of the backtracking loop before its k-th iteration, recovered
\* from the operations pushed so far (ops is still in backtracking order)
CursorOld(k) == Len(old_lines) - OldBefore(ops, k)
CursorNew(k) == Len(new_lines) - NewBefore(ops, k)

\* the k-th iteration met unequal lines and equal table scores
TieAt(k) ==
    /\ CursorOld(k) > 0
    /\ CursorNew(k) > 0
    /\ old_lines[CursorOld(k)] # new_lines[CursorNew(k)]
    /\ table[CursorOld(k)][CursorNew(k) - 1] = table[CursorOld(k) - 1][CursorNew(k)]

\* the backtrack as the specification words it, from (p, q) down to (0, 0)
RECURSIVE ReferenceBacktrack(_, _)
ReferenceBacktrack(p, q) ==
    IF p = 0 /\ q = 0 THEN <<>>
    ELSE IF p > 0 /\ q > 0 /\ old_lines[p] = new_lines[q]
    THEN <<"Equal">> \o ReferenceBacktrack(p - 1, q - 1)
    ELSE IF q > 0 /\ (p = 0 \/ table[p][q - 1] >= table[p - 1][q])
    THEN <<"Add">> \o ReferenceBacktrack(p, q - 1)
    ELSE <<"Remove">> \o ReferenceBacktrack(p - 1, q)

ReferenceScript ==
    LET back == ReferenceBacktrack(Len(old_lines), Len(new_lines))
    IN  [k \in 1..Len(back) |-> back[Len(back) + 1 - k]]

\* C4: the script diff_ops returns is the reversed reference backtrack from
\* (m, n), and every iteration of the loop that meets unequal lines with
\* table[i][j-1] = table[i-1][j] pushes Add.
C4_ReferenceBacktrack ==
    /\ pc = "backtrack" => \A k \in 1..Len(ops) : TieAt(k) => ops[k] = "Add"
    /\ ScriptReturned => ops = ReferenceScript

\* the loop has just ended on a run in which a tie was met
C4_Witness ==
    /\ pc = "backtrack"
    /\ i = 0 /\ j = 0
    /\ \E k \in 1..Len(ops) : TieAt(k)
    /\ "Remove" \in Range(ops)

----------------------------------------------------------------------------
(* Properties of unified_diff *)

\* positions of the '@@' lines of the output, and the lines printed under
\* the header at position x (up to the next header or the end)
HeaderPositions == {x \in 1..Len(output) : output[x].tag = "@@"}
BodyOf(x) ==
    {y \in (x + 1)..Len(output) :
        \A z \in HeaderPositions : z > x => y < z}

\* C5: in every hunk the old_count of the '@@' line is the number of window
\* entries that are not Add and the new_count the number that are not Remove,
\* both in the window taken from the tagged list and in the lines printed
\* under the header.
C5_HunkCounts ==
    /\ \A k \in 1..Len(hunks) :
          LET window == (hunks[k].hunk_start + 1)..hunks[k].hunk_end
          IN  /\ hunks[k].old_count
                    = Cardinality({x \in window : tagged[x].kind # "Add"})
              /\ hunks[k].new_count
                    = Cardinality({x \in window : tagged[x].kind # "Remove"})
    /\ \A x \in HeaderPositions :
          /\ output[x].old_count
                = Cardinality({y \in BodyOf(x) : output[y].tag # "+"})
          /\ output[x].new_count
                = Cardinality({y \in BodyOf(x) : output[y].tag # "-"})
    /\ Cardinality(HeaderPositions) = Len(hunks)

\* a printed hunk holding context, removed and added lines in unequal numbers
C5_Witness ==
    /\ pc = "done"
    /\ \E x \in HeaderPositions :
          /\ output[x].old_count > output[x].new_count
          /\ output[x].new_count > 1
          /\ {" ", "-", "+"} \subseteq {output[y].tag : y \in BodyOf(x)}

\* C6: consecutive hunks are in ascending position and do not overlap: the
\* window of a hunk ends at or before the window of the next one begins, and
\* the next header starts at or after old_start + old_count and
\* new_start + new_count of the previous one.
C6_HunksAscending ==
    \A k \in 1..(Len(hunks) - 1) :
       /\ hunks[k].hunk_end <= hunks[k + 1].hunk_start
       /\ hunks[k + 1].old_start >= hunks[k].old_start + hunks[k].old_count
       /\ hunks[k + 1].new_start >= hunks[k].new_start + hunks[k].new_count

\* two hunks have been emitted, the first one closed by trailing context
C6_Witness ==
    /\ pc = "done"
    /\ Len(hunks) = 2
    /\ hunks[1].old_count > 0
    /\ hunks[1].hunk_end > hunks[1].last_change + 1

\* the 0-based indices of the changed entries of tagged, ascending
Changed == {x \in 0..(Len(tagged) - 1) : tagged[x + 1].kind # "Context"}
\* x and y are consecutive changed entries
ConsecutiveChanges(x, y) ==
    /\ x \in Changed /\ y \in Changed /\ x < y
    /\ \A z \in Changed : ~(x < z /\ z < y)
EqualBetween(x, y) ==
    Cardinality({z \in (x + 1)..(y - 1) : tagged[z + 1].kind = "Context"})
\* one emitted hunk shows both entries
SameHunk(x, y) ==
    \E k \in 1..Len(hunks) :
       /\ hunks[k].hunk_start <= x /\ x < hunks[k].hunk_end
       /\ hunks[k].hunk_start <= y /\ y < hunks[k].hunk_end

\* C7: in the finished output two consecutive changed entries are in the same
\* hunk exactly when at most 6 Equal entries lie between them, so the number
\* of hunks is one more than the number of gaps above 6; two changed entries
\* 10 unchanged lines apart give two hunks, 2 unchanged lines apart one hunk.
C7_HunkMerging ==
    pc = "done" /\ Changed # {} =>
       /\ \A x, y \in Changed :
             ConsecutiveChanges(x, y) =>
                (SameHunk(x, y) <=> EqualBetween(x, y) <= 6)
       /\ Len(hunks)
             = 1 + Cardinality({x \in Changed : \E y \in Changed :
                                   ConsecutiveChanges(x, y) /\ EqualBetween(x, y) > 6})
       /\ \A x, y \in Changed :
             Cardinality(Changed) = 2 /\ ConsecutiveChanges(x, y) =>
                /\ EqualBetween(x, y) = 10 => Len(hunks) = 2
                /\ EqualBetween(x, y) = 2 =>
                      Len(hunks) = 1 /\ SameHunk(x, y)

\* two single-line changes 10 unchanged lines apart, printed as two hunks
C7_Witness ==
    /\ pc = "done"
    /\ Cardinality(Changed) = 2
    /\ \E x, y \in Changed : ConsecutiveChanges(x, y) /\ EqualBetween(x, y) = 10
    /\ Len(hunks) = 2

\* number of Context entries at the head / at the tail of a hunk's lines
LeadingContext(ls) ==
    Cardinality({k \in 1..Len(ls) : \A x \in 1..k : ls[x].kind = "Context"})
TrailingContext(ls) ==
    Cardinality({k \in 1..Len(ls) : \A x \in k..Len(ls) : ls[x].kind = "Context"})

\* C8: the window of the hunk for the range (first_change, last_change) over
\* L tagged lines is [max(0, first_change - 3), min(L, last_change + 4)); it
\* is not empty, starts with exactly min(3, first_change) Equal lines before
\* the first change and ends with exactly min(3, L - 1 - last_change) Equal
\* lines after the last change.
C8_HunkWindow ==
    \A k \in 1..Len(hunks) :
       LET h == hunks[k]
           L == Len(tagged)
       IN  /\ h.first_change = hunk_ranges[k][1]
           /\ h.last_change = hunk_ranges[k][2]
           /\ h.hunk_start = Max(0, h.first_change - 3)
           /\ h.hunk_end = Min(L, h.last_change + 4)
           /\ h.hunk_start < h.hunk_end
           /\ h.lines = [x \in 1..(h.hunk_end - h.hunk_start) |-> tagged[h.hunk_start + x]]
           /\ tagged[h.first_change + 1].kind # "Context"
           /\ tagged[h.last_change + 1].kind # "Context"
           /\ LeadingContext(h.lines) = Min(3, h.first_change)
           /\ LeadingContext(h.lines) = h.first_change - h.hunk_start
           /\ TrailingContext(h.lines) = Min(3, L - 1 - h.last_change)
           /\ TrailingContext(h.lines) = h.hunk_end - 1 - h.last_change

\* a run with a hunk clamped at the start of the list and a hunk clamped at
\* its end, each with fewer than 3 context lines on the clamped side
C8_Witness ==
    /\ pc = "done"
    /\ Len(hunks) = 2
    /\ hunks[1].first_change \in 1..2
    /\ hunks[1].hunk_start = 0
    /\ Len(tagged) - 1 - hunks[2].last_change \in 1..2
    /\ hunks[2].hunk_end = Len(tagged)

\* C9: old_start and new_start of every hunk are the 1-indexed old and new
\* line numbers of the first entry of its window; the lines of the hunk that
\* are not Add are the old lines old_start .. old_start + old_count - 1 and
\* those that are not Remove are the new lines
\* new_start .. new_start + new_count - 1, both ranges within the texts.
C9_HunkLineNumbers ==
    \A k \in 1..Len(hunks) :
       LET h == hunks[k]
       IN  /\ h.old_start
                 = 1 + Cardinality({x \in 1..h.hunk_start : tagged[x].kind # "Add"})
           /\ h.new_start
                 = 1 + Cardinality({x \in 1..h.hunk_start : tagged[x].kind # "Remove"})
           /\ h.old_start + h.old_count - 1 <= Len(old_lines)
           /\ h.new_start + h.new_count - 1 <= Len(new_lines)
           /\ Texts(SelectSeq(h.lines, LAMBDA l : l.kind # "Add"))
                 = SubSeq(old_lines, h.old_start, h.old_start + h.old_count - 1)
           /\ Texts(SelectSeq(h.lines, LAMBDA l : l.kind # "Remove"))
                 = SubSeq(new_lines, h.new_start, h.new_start + h.new_count - 1)

\* a second hunk whose old and new line numbers have drifted apart
C9_Witness ==
    /\ pc = "done"
    /\ Len(hunks) = 2
    /\ hunks[2].old_start > 1
    /\ hunks[2].old_start # hunks[2].new_start
    /\ hunks[2].old_count # hunks[2].new_count

\* C10: on identical line sequences diff_ops returns len(A) operations, all
\* Equal, and unified_diff returns the two file-header lines and no hunk.
C10_Identity ==
    old_lines = new_lines =>
       /\ ScriptReturned =>
             /\ Len(ops) = Len(old_lines)
             /\ \A k \in 1..Len(ops) : ops[k] = "Equal"
       /\ pc \notin {"emit", "panic"}
       /\ pc = "done" =>
             /\ Len(output) = 2
             /\ output[1].tag = "---"
             /\ output[2].tag = "+++"
             /\ hunks = <<>>

\* unified_diff has returned on two identical texts of several lines
C10_Witness ==
    /\ pc = "done"
    /\ old_lines = new_lines
    /\ Len(old_lines) >= 2
    /\ Len(output) = 2

----------------------------------------------------------------------------
(* Properties of resolve_dependencies *)

Positions(vec, name) == {k \in 1..Len(vec) : vec[k] = name}

\* the names reachable from the set S along declared dependencies, S included
RECURSIVE Closure(_, _)
Closure(reg, S) ==
    LET T == S \cup UNION {Range(Dependencies(reg, x)) : x \in S}
    IN  IF T = S THEN S ELSE Closure(reg, T)

\* the names that name d depends on, directly or transitively
DependsOn(reg, d) == Closure(reg, Range(Dependencies(reg, d)))

\* d is in the output, and only in front of the first occurrence of n
Precedes(d, n) ==
    /\ Positions(resolved, d) # {}
    /\ \A x \in Positions(resolved, d) : \A y \in Positions(resolved, n) : x < y

\* C2 as stated: in the returned list every dependency D declared by a name
\* N of the list stands at a strictly smaller index than N.
C2_DependenciesFirstAlways ==
    rpc = "done" =>
       \A n \in Range(resolved) :
          \A d \in Range(Dependencies(registry, n)) : Precedes(d, n)

\* C2 amended: in the returned list every dependency D declared by a name N
\* of the list stands at a strictly smaller index than N, unless D itself
\* depends on N, directly or transitively (N = D included).
C2_DependenciesFirst ==
    rpc = "done" =>
       \A n \in Range(resolved) :
          \A d \in Range(Dependencies(registry, n)) :
             n \notin DependsOn(registry, d) => Precedes(d, n)

\* a chain n -> d -> e resolved from the request [n] alone, next to a
\* dependency that is shared by two names
C2_Witness ==
    /\ rpc = "done"
    /\ Len(names) = 1
    /\ Len(resolved) = 3
    /\ \E n, d, e \in Names :
          /\ names[1] = n
          /\ Dependencies(registry, n) = <<d, e>>
          /\ Dependencies(registry, d) = <<e>>
          /\ Dependencies(registry, e) = <<>>
          /\ n # d /\ d # e /\ n # e
          /\ resolved = <<e, d, n>>

\* the dependency list a registry declares for a name, read off the registry
\* itself; a name without an entry declares none
Declared(reg, n) == IF n \in DOMAIN reg THEN reg[n] ELSE <<>>

\* the names reachable from the set S along declared dependencies, S included
RECURSIVE Reach(_, _)
Reach(reg, S) ==
    LET T == S \cup UNION {Range(Declared(reg, x)) : x \in S}
    IN  IF T = S THEN S ELSE Reach(reg, T)

\* C11: at every moment, and so in the returned list, resolved holds each
\* name at most once, whatever the request repeats and the components share.
C11_NoDuplicates ==
    \A x, y \in 1..Len(resolved) : resolved[x] = resolved[y] => x = y

\* two requested components that share a dependency have been resolved
C11_Witness ==
    /\ rpc = "done"
    /\ Len(names) = 2
    /\ names[1] # names[2]
    /\ \E d \in Names \ Range(names) :
          /\ d \in Range(Declared(registry, names[1]))
          /\ d \in Range(Declared(registry, names[2]))
    /\ Len(resolved) = 3

\* C12: the names of the returned list are exactly the requested names and
\* the names reachable from them along declared dependencies.
C12_TransitiveClosure ==
    rpc = "done" => Range(resolved) = Reach(registry, Range(names))

\* a request whose closure adds two dependencies of one component and
\* leaves a registered component out
C12_Witness ==
    /\ rpc = "done"
    /\ Len(names) = 1
    /\ Len(Declared(registry, names[1])) = 2
    /\ Cardinality(Range(resolved)) = 3
    /\ DOMAIN registry = Names

\* the work left in the calls in progress from frame k on: per call, the
\* dependencies still to walk and the push still to make
RECURSIVE FramesLeft(_)
FramesLeft(k) ==
    IF k > Len(stack) THEN 0
    ELSE Len(Declared(registry, stack[k].name)) - stack[k].dep + 1
         + FramesLeft(k + 1)

\* the work left to resolve_dependencies: the return, the names still to
\* request, the calls in progress, and for every name not yet visited a
\* whole call at its longest
ResolveMeasure ==
    (IF rpc = "loop" THEN 1 ELSE 0)
    + (Len(names) - name_idx)
    + FramesLeft(1)
    + (MaxDeps + 2) * Cardinality(Names \ visited)

\* C13: resolve_dependencies terminates on every registry and request, with
\* or without cycles: every step strictly lowers a measure that is never
\* negative, some step is possible until the function has returned, and the
\* only way out is the return of resolved.
C13_Terminates ==
    /\ [][ResolveMeasure' < ResolveMeasure]_vars
    /\ [](ResolveMeasure >= 0)
    /\ [](rpc = "loop" => ENABLED NextResolve)
    /\ [](rpc \in {"loop", "done"})
    /\ [](rpc = "done" => stack = <<>> /\ name_idx = Len(names))

\* resolve_dependencies has returned on a registry with a component that
\* lists itself and a cycle through two other components
C13_Witness ==
    /\ rpc = "done"
    /\ \E x, y, z \in Names :
          /\ x # y /\ y # z /\ x # z
          /\ x \in Range(Declared(registry, x))
          /\ z \in Range(Declared(registry, y))
          /\ y \in Range(Declared(registry, z))
          /\ Range(resolved) = {x, y, z}

\* a depth-first walk written as a recursive function over the registry: it
\* threads the set of names seen, the names in the order they are first
\* visited (pre) and the names in the order their walk completes (post)
RECURSIVE Visit(_, _, _), VisitAll(_, _, _, _)
Visit(reg, n, st) ==
    IF n \in st.seen THEN st
    ELSE LET entered == [seen |-> st.seen \cup {n},
                         pre  |-> Append(st.pre, n),
                         post |-> st.post]
             walked  == VisitAll(reg, Declared(reg, n), 1, entered)
         IN  [walked EXCEPT !.post = Append(@, n)]

VisitAll(reg, list, k, st) ==
    IF k > Len(list) THEN st
    ELSE VisitAll(reg, list, k + 1, Visit(reg, list[k], st))

DepthFirst(reg, req) ==
    VisitAll(reg, req, 1, [seen |-> {}, pre |-> <<>>, post |-> <<>>])

\* the names from which the name itself is reachable along one or more
\* declared dependencies, among the names reachable from the request
OnCycle(reg, req) ==
    {n \in Reach(reg, Range(req)) : n \in Reach(reg, Range(Declared(reg, n)))}

\* two different names reachable from the request lie on one cycle
ProperCycle(reg, req) ==
    \E n \in OnCycle(reg, req) :
       \E d \in Reach(reg, Range(Declared(reg, n))) \ {n} :
          n \in Reach(reg, Range(Declared(reg, d)))

\* C14 as stated: when the graph reachable from the request has a cycle,
\* the returned order is the order in which the walk first visits the names.
C14_FirstVisitationOrder ==
    (rpc = "done" /\ OnCycle(registry, names) # {}) => resolved = visit_order

\* C14, amended: when the graph reachable from the request has a cycle, the
\* returned order is the order in which the walk completes the names (its
\* post-order), the first visits being the walk's pre-order; on a cycle
\* through two or more names the two orders differ.
C14_CompletionOrder ==
    (rpc = "done" /\ OnCycle(registry, names) # {}) =>
        /\ resolved = DepthFirst(registry, names).post
        /\ visit_order = DepthFirst(registry, names).pre
        /\ ProperCycle(registry, names) => resolved # visit_order

\* a cycle through two names below a requested third one has been resolved
C14_Witness ==
    /\ rpc = "done"
    /\ ProperCycle(registry, names)
    /\ Len(names) = 1
    /\ names[1] \notin OnCycle(registry, names)
    /\ Len(resolved) = 3
    /\ resolved # visit_order

\* the names reachable from the request that the registry does not hold
Unregistered(reg, req) == Reach(reg, Range(req)) \ DOMAIN reg

\* a sequence without the names of U
Without(seq, U) == SelectSeq(seq, LAMBDA x : x \notin U)

\* a registry with the names of U dropped from every dependency list
Stripped(reg, U) == [n \in DOMAIN reg |-> Without(reg[n], U)]

\* C15: a name the registry does not hold, requested or declared as a
\* dependency, raises no error and is a leaf: it is in the returned list
\* exactly once, at its post-order position, every name ahead of it was
\* visited before it (it brings in no name), and the other names come out as
\* they do from the same registry and request with the absent names left out.
C15_UnregisteredLeaf ==
    (rpc = "done" /\ Unregistered(registry, names) # {}) =>
        /\ \A u \in Unregistered(registry, names) :
              /\ Cardinality(Positions(resolved, u)) = 1
              /\ \A x \in Positions(visit_order, u) :
                    \A y \in Positions(resolved, u) :
                       \A z \in 1..(y - 1) :
                          \E w \in 1..(x - 1) : visit_order[w] = resolved[z]
        /\ resolved = DepthFirst(registry, names).post
        /\ Without(resolved, Unregistered(registry, names))
             = DepthFirst(Stripped(registry, Unregistered(registry, names)),
                          Without(names, Unregistered(registry, names))).post

\* an absent name that is both requested and declared as the second
\* dependency of a registered component has been resolved
C15_Witness ==
    /\ rpc = "done"
    /\ \E u \in Range(names) \ DOMAIN registry :
          /\ Len(names) = 2
          /\ names[1] \in DOMAIN registry
          /\ Len(registry[names[1]]) = 2
          /\ registry[names[1]][2] = u
          /\ resolved = <<registry[names[1]][1], u, names[1]>>

\* C16: diff_ops and unified_diff are total.  The backtracking loop lowers
\* i + j at every iteration and keeps both cursors within 0..m and 0..n; no
\* step indexes out of range (old_lines[old_lineno], new_lines[new_lineno],
\* change_indices[0] and [1..], tagged[hunk_start..hunk_end], hunk_lines[0]),
\* and the loops over ops and hunk_ranges stay within their lengths.
C16_Total ==
    /\ [][(pc = "backtrack" /\ pc' = "backtrack") =>
             (i' + j' < i + j /\ i' >= 0 /\ j' >= 0)]_vars
    /\ [](pc # "panic")
    /\ [](i \in 0..Len(old_lines) /\ j \in 0..Len(new_lines))
    /\ [](pc = "backtrack" => Len(ops) + i + j <= Len(old_lines) + Len(new_lines))
    /\ [](pc = "emit" => Len(hunks) <= Len(hunk_ranges))
    /\ [](pc \in {"group", "emit", "done"} =>
             /\ Len(tagged) = Len(ops)
             /\ \A k \in 1..Len(tagged) :
                   /\ tagged[k].kind # "Add" =>
                         tagged[k].old_line \in 0..(Len(old_lines) - 1)
                   /\ tagged[k].kind = "Add" =>
                         tagged[k].new_line \in 0..(Len(new_lines) - 1)
             /\ \A k \in 1..Len(change_indices) :
                   change_indices[k] \in 0..(Len(tagged) - 1))
    /\ [](pc = "emit" =>
             /\ change_indices # <<>>
             /\ hunk_ranges # <<>>
             /\ \A k \in 1..Len(hunk_ranges) :
                   /\ 0 <= hunk_ranges[k][1]
                   /\ hunk_ranges[k][1] <= hunk_ranges[k][2]
                   /\ hunk_ranges[k][2] < Len(tagged))
    /\ [](\A k \in 1..Len(hunks) :
             /\ 0 <= hunks[k].hunk_start
             /\ hunks[k].hunk_start < hunks[k].hunk_end
             /\ hunks[k].hunk_end <= Len(tagged))

\* unified_diff has returned two hunks, the first with its start saturated
\* at 0 and the second with its end clamped to tagged.len()
C16_Witness ==
    /\ pc = "done"
    /\ Len(hunks) = 2
    /\ hunks[1].first_change < context
    /\ hunks[1].hunk_start = 0
    /\ hunks[2].last_change + context + 1 > Len(tagged)
    /\ hunks[2].hunk_end = Len(tagged)

----------------------------------------------------------------------------
(* Properties of the add, diff and update commands *)

\* the events of the log that record the handling of a component file by add
FileEvents == SelectSeq(log, LAMBDA e : e.ev \in {"added", "skipped"})

\* C17: in update, a component file changes only in the write step of the
\* current component, right after the successful backup of that component
\* in the same run, when <name>.rs.bak holds the content the file has before
\* the write; a backup changes only in the backup step of the current
\* component; and from the backup to the end of the write the loop stays on
\* that component: it moves on only by the write that installs the source.
C17_BackupBeforeOverwrite ==
    /\ [][args.command = "update" =>
            \A n \in DOMAIN files :
               /\ files'[n] # files[n] =>
                     /\ cpc = "write"
                     /\ n = Current
                     /\ log[Len(log)] = Event("backed_up", n)
                     /\ backups[n] = files[n]
                     /\ files'[n] \in {GetComponentSource(n), Interrupted}
               /\ backups'[n] # backups[n] =>
                     /\ cpc = "backup"
                     /\ n = Current
                     /\ files'[n] = files[n]
                     /\ cpc' = "write" => backups'[n] = files[n]]_vars
    /\ [][(args.command = "update" /\ cpc \in {"backup", "write"}) =>
            \/ position' = position /\ worklist' = worklist
            \/ /\ cpc = "write"
               /\ position' = position + 1
               /\ files'[Current] = GetComponentSource(Current)
               /\ backups'[Current] = files[Current]]_vars
    /\ [](\A k \in 1..Len(log) :
             log[k].ev = "updated" =>
                k > 1 /\ log[k - 1] = Event("backed_up", log[k].name))

\* update has replaced two edited components, each after its backup
C17_Witness ==
    /\ args.command = "update"
    /\ cpc = "done"
    /\ result = "Ok"
    /\ counts.updated = 2
    /\ \E m, n \in DOMAIN files :
          /\ m # n
          /\ files[m] = "source" /\ backups[m] = "edited"
          /\ files[n] = "source" /\ backups[n] = "edited"

\* C18: in diff and update, after a component's local file could not be
\* read, or its backup or write failed, every remaining component of the
\* list has still been processed and the summary has been printed.
C18_FailureDoesNotBlock ==
    (/\ cpc = "done"
     /\ args.command \in {"diff", "update"}
     /\ result \in {"ReadFailed", "BackupFailed", "WriteFailed"})
       => /\ position = Len(worklist)
          /\ \E k \in 1..Len(log) : log[k].ev = "summary"

\* a command line names a component that the registry does not hold
UnknownRequested == \E k \in 1..Len(args.components) : ~Found(args.components[k])

\* C19 as stated: with an unknown name among the requested ones, add, diff
\* and update fail with the Unknown component error, never call the
\* resolver and create or modify no directory and no file.
C19_UnknownComponentError ==
    /\ [](cpc = "done" /\ UnknownRequested => result = "UnknownComponent")
    /\ [][UnknownRequested =>
             /\ rpc = "idle" /\ rpc' = "idle"
             /\ <<dir_exists, files, backups, mod_rs>>'
                   = <<dir_exists, files, backups, mod_rs>>]_vars

\* the component names of the command line are the requested names: always
\* in diff and update, and in add unless --all is given
NamesRequested == args.command \in {"diff", "update"} \/ ~args.all

\* the unknown name of the command line that no unknown name precedes
FirstUnknown_Reference ==
    LET k == CHOOSE x \in 1..Len(args.components) :
                /\ ~Found(args.components[x])
                /\ \A y \in 1..(x - 1) : Found(args.components[y])
    IN  args.components[k]

\* C19, amended: with an unknown name among the requested ones the command
\* fails, the resolver is never called and no directory or file is created
\* or modified; the error is Unknown component, for the first unknown name,
\* whenever the run reaches the validation, and otherwise the earlier error
\* of a configuration that does not load or, in diff and update, of a
\* missing components directory.
C19_UnknownNameRejected ==
    /\ [](cpc = "done" /\ UnknownRequested /\ NamesRequested =>
             \/ /\ result = "UnknownComponent"
                /\ log = <<Event("error", FirstUnknown_Reference)>>
             \/ result = "NoConfig"
             \/ /\ result = "NoDir"
                /\ args.command \in {"diff", "update"}
                /\ ~dir_exists)
    /\ [][(UnknownRequested /\ NamesRequested) =>
             /\ rpc = "idle" /\ rpc' = "idle"
             /\ <<dir_exists, files, backups, mod_rs>>'
                   = <<dir_exists, files, backups, mod_rs>>
             /\ cpc \in {"select", "requested"} =>
                   result' = "UnknownComponent"]_vars

\* add of a registered and an unknown name in a project without components
\* directory has failed at the validation
C19_Witness ==
    /\ cpc = "done"
    /\ args.command = "add"
    /\ ~args.all
    /\ args.components = <<"dialog", "ghost">>
    /\ result = "UnknownComponent"
    /\ ~dir_exists
    /\ rpc = "idle"

\* C20: add handles the component files in the order of the resolver's
\* output, so that when the file of a component N is written or skipped, the
\* file of every dependency D that N declares has been written or skipped
\* before.
C20_DependenciesCopiedFirst ==
    args.command = "add" =>
       /\ \A k \in 1..Len(FileEvents) : FileEvents[k].name = resolved[k]
       /\ Len(FileEvents) <= Len(resolved)
       /\ \A k \in 1..Len(FileEvents) :
             \A d \in Range(Declared(DefaultRegistry, FileEvents[k].name)) :
                \E h \in 1..(k - 1) : FileEvents[h].name = d

\* add alert_dialog has written button, skipped the existing dialog and
\* written alert_dialog
C20_Witness ==
    /\ args.command = "add"
    /\ cpc = "done"
    /\ result = "Ok"
    /\ requested = <<"alert_dialog">>
    /\ Len(FileEvents) = 3
    /\ FileEvents[1].ev = "added" /\ FileEvents[1].name = "button"
    /\ FileEvents[2].ev = "skipped" /\ FileEvents[2].name = "dialog"
    /\ FileEvents[3].ev = "added" /\ FileEvents[3].name = "alert_dialog"

\* update_mod_rs has written mod.rs in this run
ModRsWritten == \E k \in 1..Len(log) : log[k].ev = "mod_rs"

\* the modules of mod.rs, in file order
ModRsModules == ParseModules(mod_rs.lines)

\* C21: after add has updated mod.rs, the `pub mod` lines of the names the
\* resolver returned stand in mod.rs in the order in which the resolver
\* returned them.
C21_ModulesInResolverOrder ==
    (args.command = "add" /\ ModRsWritten) =>
        SelectSeq(ModRsModules, LAMBDA m : m \in Range(resolved)) = resolved

----------------------------------------------------------------------------
(* Scenarios of diff_ops and unified_diff *)

\* the printed form of an entry of the tagged list
Shown(kind, text) == [tag |-> Prefix(kind), text |-> text]

\* the printed '@@' line
HunkHeader(os, oc, ns, nc) ==
    [tag |-> "@@", old_start |-> os, old_count |-> oc,
     new_start |-> ns, new_count |-> nc]

\* C22: for old = [a, b, c] and new = [a, x, c], diff_ops returns
\* [Equal, Remove, Add, Equal] over the lines a, b, x, c, and unified_diff
\* prints the file header and exactly one hunk, `@@ -1,3 +1,3 @@`, with the
\* lines ' a', '-b', '+x', ' c'.
C22_Substitution ==
    (old_lines = Substitution[1] /\ new_lines = Substitution[2]) =>
        /\ ScriptReturned => ops = <<"Equal", "Remove", "Add", "Equal">>
        /\ Tagged => Texts(tagged) = <<"a", "b", "x", "c">>
        /\ pc = "done" =>
              /\ Len(hunks) = 1
              /\ hunks[1].old_start = 1 /\ hunks[1].old_count = 3
              /\ hunks[1].new_start = 1 /\ hunks[1].new_count = 3
              /\ output = HeaderLines \o
                          << HunkHeader(1, 3, 1, 3),
                             Shown("Context", "a"), Shown("Remove", "b"),
                             Shown("Add", "x"), Shown("Context", "c") >>

\* unified_diff has returned on the substitution pair
C22_Witness ==
    /\ pc = "done"
    /\ old_lines = <<"a", "b", "c">>
    /\ new_lines = <<"a", "x", "c">>
    /\ Len(hunks) = 1
    /\ Len(output) = 7

\* C23: for an empty old and a new of n >= 1 lines, diff_ops returns n Add
\* operations and nothing else, and unified_diff prints exactly one hunk,
\* `@@ -1,0 +1,n @@`, with the n lines of new as '+' lines.
C23_PureInsertion ==
    (old_lines = <<>> /\ Len(new_lines) >= 1) =>
        /\ ScriptReturned => ops = [k \in 1..Len(new_lines) |-> "Add"]
        /\ pc = "done" =>
              /\ Len(hunks) = 1
              /\ hunks[1].old_start = 1 /\ hunks[1].old_count = 0
              /\ hunks[1].new_start = 1
              /\ hunks[1].new_count = Len(new_lines)
              /\ output = HeaderLines \o
                          << HunkHeader(1, 0, 1, Len(new_lines)) >> \o
                          [k \in 1..Len(new_lines) |-> Shown("Add", new_lines[k])]

\* unified_diff has returned on an empty old and the one-line new [a]
C23_Witness ==
    /\ pc = "done"
    /\ old_lines = <<>>
    /\ new_lines = <<"a">>
    /\ ops = <<"Add">>
    /\ Len(hunks) = 1
    /\ hunks[1].new_count = 1

\* C24: on the default registry, resolve_dependencies(["toggle_group"])
\* returns exactly [toggle, toggle_group].
C24_ToggleGroup ==
    (registry = DefaultRegistry /\ names = <<"toggle_group">> /\ rpc = "done") =>
        resolved = <<"toggle", "toggle_group">>

\* the resolver has returned for `add toggle_group`
C24_Witness ==
    /\ args.command = "add"
    /\ registry = DefaultRegistry
    /\ names = <<"toggle_group">>
    /\ rpc = "done"
    /\ Len(resolved) = 2

----------------------------------------------------------------------------
(* The hunks as a patch *)

\* the hunks whose window holds entry k of the tagged list
WindowsOf(k) ==
    {h \in 1..Len(hunks) : hunks[h].hunk_start < k /\ k <= hunks[h].hunk_end}

Rejected == [ok |-> FALSE, lines |-> <<>>]

\* the printed diff applied to old from line k of the text on: `cursor` old
\* lines are consumed and `acc` is written. A hunk header at old_start copies
\* the old lines before it and must find new_start lines written; ' ' and
\* '-' lines must match the old line under the cursor.
RECURSIVE Patch(_, _, _, _, _)
Patch(old, text, k, cursor, acc) ==
    IF k > Len(text)
    THEN [ok |-> TRUE, lines |-> acc \o SubSeq(old, cursor + 1, Len(old))]
    ELSE LET l == text[k]
         IN  CASE l.tag = "@@" ->
                     IF l.old_start - 1 < cursor \/ l.old_start - 1 > Len(old)
                     THEN Rejected
                     ELSE LET copied == acc \o SubSeq(old, cursor + 1,
                                                      l.old_start - 1)
                          IN  IF Len(copied) + 1 # l.new_start
                              THEN Rejected
                              ELSE Patch(old, text, k + 1, l.old_start - 1,
                                         copied)
               [] l.tag = " " ->
                     IF cursor < Len(old) /\ old[cursor + 1] = l.text
                     THEN Patch(old, text, k + 1, cursor + 1,
                                Append(acc, l.text))
                     ELSE Rejected
               [] l.tag = "-" ->
                     IF cursor < Len(old) /\ old[cursor + 1] = l.text
                     THEN Patch(old, text, k + 1, cursor + 1, acc)
                     ELSE Rejected
               [] l.tag = "+" ->
                     Patch(old, text, k + 1, cursor, Append(acc, l.text))
               [] OTHER -> Rejected

\* the printed diff, after its two header lines, applied to old
ApplyPatch(old, text) ==
    IF Len(text) < 2 \/ SubSeq(text, 1, 2) # HeaderLines
    THEN Rejected
    ELSE Patch(old, text, 3, 0, <<>>)

\* C28: when unified_diff returns, every non-Context entry of the tagged list
\* lies in the window of exactly one emitted hunk, every entry outside all
\* windows is Context, and the printed hunks applied to old as a patch,
\* with old_start the 1-indexed old line of a hunk's first entry, give new.
C28_HunksCoverChanges ==
    pc = "done" =>
        /\ \A k \in 1..Len(tagged) :
              /\ tagged[k].kind # "Context" => Cardinality(WindowsOf(k)) = 1
              /\ WindowsOf(k) = {} => tagged[k].kind = "Context"
        /\ LET patched == ApplyPatch(old_lines, output)
           IN  patched.ok /\ patched.lines = new_lines

\* unified_diff has returned two hunks with unchanged lines between their
\* windows
C28_Witness ==
    /\ pc = "done"
    /\ Len(hunks) = 2
    /\ hunks[1].hunk_end < hunks[2].hunk_start
    /\ \E k \in 1..Len(tagged) : tagged[k].kind = "Add"
    /\ \E k \in 1..Len(tagged) : tagged[k].kind = "Remove"
    /\ ApplyPatch(old_lines, output).lines = new_lines

----------------------------------------------------------------------------
(* The order of Removes and Adds *)

\* positions k < l of the script lie in one run of non-Equal operations
SameRun(script, k, l) == \A x \in k..l : script[x] # "Equal"

\* C29: in the script diff_ops returns, within each maximal run of non-Equal
\* operations every Remove precedes every Add; in particular an Add is never
\* immediately followed by a Remove.
C29_RemovesBeforeAdds ==
    ScriptReturned =>
        /\ \A k \in 1..Len(ops) : \A l \in (k + 1)..Len(ops) :
              SameRun(ops, k, l) => ~(ops[k] = "Add" /\ ops[l] = "Remove")
        /\ \A k \in 1..(Len(ops) - 1) :
              ~(ops[k] = "Add" /\ ops[k + 1] = "Remove")

\* diff_ops has returned a script with a run of two Removes and two Adds
\* between Equal operations
C29_Witness ==
    /\ ScriptReturned
    /\ \E k \in 1..(Len(ops) - 5) :
          SubSeq(ops, k, k + 5) =
             <<"Equal", "Remove", "Remove", "Add", "Add", "Equal">>

----------------------------------------------------------------------------
(* Frame conditions of update and add *)

\* update leaves the file of n alone whatever it does: n is not installed,
\* has no embedded source, or is identical to its source
NothingToUpdate(n) ==
    \/ files[n] = NoFile
    \/ GetComponentSource(n) = "none"
    \/ files[n] = GetComponentSource(n)

\* the user has answered yes to the prompt of the current iteration
Confirmed ==
    \E k \in 1..Len(log) :
       /\ log[k] = Event("confirmed", Current)
       /\ k > 1 /\ log[k - 1] = Event("modified", Current)
       /\ \A l \in (k + 1)..Len(log) : log[l] = Event("backed_up", Current)

\* the step prints `Skipped <name>` for the current component
Declines ==
    /\ Len(log') = Len(log) + 1
    /\ log'[Len(log')].ev = "declined"

\* C26: in update, the file and the .bak of a component that is not
\* installed, has no embedded source or is identical to its source never
\* change; the step in which the user declines changes no file and no
\* backup; and a file or a backup changes only for the current component,
\* installed and different from its source, with --force or after the user
\* has answered yes to the prompt of this iteration.
C26_UpdateFrame ==
    [][args.command = "update" =>
         /\ (files' # files \/ backups' # backups) =>
               \A n \in DOMAIN files :
                  /\ NothingToUpdate(n) =>
                        files'[n] = files[n] /\ backups'[n] = backups[n]
                  /\ (files'[n] # files[n] \/ backups'[n] # backups[n]) =>
                        /\ cpc \in {"backup", "write"}
                        /\ n = Current
                        /\ args.force \/ Confirmed
         /\ Declines =>
               /\ cpc = "confirm" /\ ~args.force
               /\ log'[Len(log')].name = Current
               /\ files' = files /\ backups' = backups
               /\ position' = position + 1
               /\ counts'.skipped = counts.skipped + 1]_vars

\* an update without --force has finished: the user declined one modified
\* component, which is as it was and has no backup, and confirmed another,
\* which holds the source and is backed up
C26_Witness ==
    /\ args.command = "update" /\ ~args.force
    /\ result = "Ok"
    /\ \E k \in 1..Len(log) :
          /\ log[k].ev = "declined"
          /\ files[log[k].name] = "edited"
          /\ backups[log[k].name] = NoFile
    /\ \E k \in 1..Len(log) :
          /\ log[k].ev = "confirmed"
          /\ files[log[k].name] = "source"
          /\ backups[log[k].name] = "edited"

\* C27: in add without --overwrite no existing component file changes, and
\* the iteration that finds the file of its component, requested or
\* dependency, prints it as skipped, counts it and leaves every file as it
\* is; an existing file changes only with --overwrite, in the iteration of
\* its component.
C27_AddKeepsExisting ==
    [][args.command = "add" =>
         /\ (~args.overwrite /\ files' # files) =>
               \A n \in DOMAIN files :
                  files[n] # NoFile => files'[n] = files[n]
         /\ ( /\ cpc = "loop" /\ position < Len(worklist)
              /\ Found(Current) /\ files[Current] # NoFile
              /\ ~args.overwrite ) =>
               /\ log' = Append(log, Event("skipped", Current))
               /\ counts' = [counts EXCEPT !.skipped = @ + 1]
               /\ position' = position + 1
               /\ files' = files
         /\ files' # files =>
               \A n \in DOMAIN files :
                  (files[n] # NoFile /\ files'[n] # files[n]) =>
                     /\ args.overwrite
                     /\ cpc = "loop" /\ n = Current]_vars

\* `add dialog` without --overwrite has finished on a project that held
\* edited copies of dialog and of its dependency button: both are skipped
\* and still hold the edited text
C27_Witness ==
    /\ args.command = "add" /\ ~args.overwrite
    /\ requested = <<"dialog">>
    /\ result = "Ok"
    /\ counts.skipped = 2 /\ counts.added = 0
    /\ files["button"] = "edited" /\ files["dialog"] = "edited"
    /\ \E k \in 1..Len(log) : log[k] = Event("skipped", "button")
    /\ \E k \in 1..Len(log) : log[k] = Event("skipped", "dialog")

----------------------------------------------------------------------------
(* The default registry *)

\* the entries of a registry have pairwise distinct names, declare only
\* registered dependencies, and no entry depends on itself, directly or
\* transitively
WellFormed(entries, reg) ==
    /\ \A x, y \in 1..Len(entries) : entries[x] = entries[y] => x = y
    /\ DOMAIN reg = Range(entries)
    /\ \A n \in DOMAIN reg :
          /\ Range(reg[n]) \subseteq DOMAIN reg
          /\ n \notin Reach(reg, Range(reg[n]))

\* C30: the registry add hands to the resolver is the default registry and,
\* at the call, is well-formed: distinct names, every declared dependency
\* registered, no cycle. So for every request the list the resolver
\* returns holds registry names only, each behind all the dependencies it
\* declares, and every module of the mod.rs that add writes is a registry
\* component whose file exists.
C30_RegistryWellFormed ==
    args.command = "add" =>
        /\ rpc # "idle" => registry = DefaultRegistry
        /\ (rpc = "loop" /\ name_idx = 0 /\ stack = <<>>) =>
              WellFormed(ComponentNames, registry)
        /\ (rpc = "done" /\ cpc = "resolving") =>
              /\ Range(resolved) \subseteq DOMAIN registry
              /\ \A n \in Range(resolved) :
                    \A d \in Range(registry[n]) : Precedes(d, n)
        /\ ModRsWritten =>
              \A m \in Range(ModRsModules) : Found(m) /\ files[m] # NoFile

\* `add --all` has finished: the resolver returned the 22 components and
\* mod.rs declares 22 modules
C30_Witness ==
    /\ args.command = "add" /\ args.all
    /\ result = "Ok"
    /\ Len(resolved) = Len(ComponentNames)
    /\ ModRsWritten
    /\ Len(ModRsModules) = Len(ComponentNames)

----------------------------------------------------------------------------
(* The text comparison against the printed diff *)

\* C25: a component classified as modified has at least one hunk in the
\* unified diff printed for it.
C25_ModifiedHasHunk ==
    (classified = "modified" /\ pc = "done") => Len(hunks) >= 1

====
